---- MODULE Spec2Model ----
(***************************************************************************)
(* pacman-fix-permissions: one run of the command-line tool, from the      *)
(* argument checks at import time to the end of the apply phase, as a      *)
(* state machine.  The package archives, the live filesystem, the package  *)
(* cache and the command line are the inputs; the package manager, the     *)
(* prompt and chmod are the environment.                                   *)
(***************************************************************************)
EXTENDS Integers, Sequences, FiniteSets, TLC

VARIABLES
    cli_args,       \* argparse namespace: [all, packages, filesystem_paths, clean]
    archives,       \* package name -> sequence of archive members [name, mode]
    fs,             \* existing absolute path -> st_mode (a path outside DOMAIN fs does not exist)
    cache,          \* set of archive files in /var/cache/pacman/pkg: <<name, version, arch, format>>
    pc,             \* position in the program
    package_ids,    \* __main__: list of <<name, version>>
    i,              \* __main__: index of the package being scanned (1-based)
    downloaded,     \* get_package: local
    path,           \* get_package: local (None or a cache file)
    members,        \* members of the open archive not yet processed
    broken_paths,   \* __main__: insertion-ordered dict, as a sequence of [path, old_mode, new_mode]
    k,              \* __main__: index of the next entry of broken_paths to chmod (1-based)
    answer,         \* <<>> before the prompt, then <<the line input() read>>
    run,            \* number of the current invocation of the tool
    events,         \* history: what this invocation did, in order, as <<operation, argument>>
    cacheAtLookup   \* history: the cache as it was at the first lookup of the current package

vars == <<cli_args, archives, fs, cache, pc, package_ids, i, downloaded, path,
          members, broken_paths, k, answer, run, events, cacheAtLookup>>

----------------------------------------------------------------------------
(* Bounds of the model *)

MaxMembers == 3     \* members in the two packages' archives together, where the archives vary
MaxArgs == 2        \* number of names after -p, or of paths after -f
MaxRuns == 2        \* invocations of the tool in a row

----------------------------------------------------------------------------
(* Values *)

None == <<"None">>  \* Python's None, where a list or a path may stand

PermMask == 4095    \* 0o7777

\* st_mode of a regular file with permission bits 0o644 and 0o755 (0o100644, 0o100755)
LiveModes == {33188, 33261}

\* mode fields an archive header may hold: 0o644, 0o755, and 0o100644 (file-type bits kept)
MemberModes == {420, 493, 33188}

PACKAGE_IGNORE == {".PKGINFO", ".BUILDINFO", ".MTREE", ".INSTALL", ".CHANGELOG",
                   "boot/amd-ucode.img"}

\* installed native packages, in the order pacman -Qn lists them
Installed == << <<"bar", "2.0">>, <<"foo", "1.0">> >>

PackageNames == {Installed[n][1] : n \in 1..Len(Installed)}

InstalledVersion(name) ==
    LET n == CHOOSE n \in 1..Len(Installed) : Installed[n][1] = name
    IN  Installed[n][2]

\* what _get_arch returned
arch == "x86_64"

\* "/" + file.name
AbsPath(name) ==
    CASE name = "boot/amd-ucode.img" -> "/boot/amd-ucode.img"
      [] name = "usr/bin/foo" -> "/usr/bin/foo"
      [] name = "etc/bar" -> "/etc/bar"

\* members an archive may hold: one with an ignored name, and two files with any mode
Members ==
    {[name |-> "boot/amd-ucode.img", mode |-> 420]}
    \cup [name : {"usr/bin/foo", "etc/bar"}, mode : MemberModes]

SeqsUpTo(S, n) == UNION {[1..m -> S] : m \in 0..n}

\* x & 0o7777
Mask(x) == x % (PermMask + 1)

\* Python truthiness of None or a list
Truthy(x) == x # None /\ x # <<>>

\* getattr(obj, name, default) on the argparse namespace
GetAttr(obj, name, default) == IF name \in DOMAIN obj THEN obj[name] ELSE default

\* str.lower on the lines the prompt may read
Lower(s) ==
    CASE s = "N" -> "n"
      [] s = "No" -> "no"
      [] s = "Y" -> "y"
      [] OTHER -> s

Answers == {"y", "Y", "n", "N", "No", "", "maybe"}

----------------------------------------------------------------------------
(* Package cache *)

\* PACKAGE_PATH_TEMPLATE.format(...) for the four (arch, format) pairs, in lookup order
CandidatePaths(name, version, a) ==
    << <<name, version, a, "tar.xz">>, <<name, version, a, "tar.zst">>,
       <<name, version, "any", "tar.xz">>, <<name, version, "any", "tar.zst">> >>

isfile(p) == p \in cache

_get_package_path(name, version, a) ==
    LET c == CandidatePaths(name, version, a)
        hits == {n \in 1..Len(c) : isfile(c[n])}
    IN  IF hits = {} THEN None
        ELSE c[CHOOSE n \in hits : \A m \in hits : n <= m]

\* the file pacman -Swq writes for a package: the repository's build of it
RepoFile(name, version) ==
    IF name = "foo" THEN <<name, version, arch, "tar.zst">>
    ELSE <<name, version, "any", "tar.xz">>

\* path.endswith(suffix) on a cache file name
EndsWith(p, suffix) ==
    \/ suffix = "xz" /\ p[4] = "tar.xz"
    \/ suffix = "zst" /\ p[4] = "tar.zst"

----------------------------------------------------------------------------
(* The discrepancy map: a dict in insertion order *)

HasKey(d, key) == \E n \in 1..Len(d) : d[n].path = key

\* d[key] = (old_mode, new_mode)
DictSet(d, key, old_mode, new_mode) ==
    LET e == [path |-> key, old_mode |-> old_mode, new_mode |-> new_mode]
    IN  IF HasKey(d, key)
        THEN [n \in 1..Len(d) |-> IF d[n].path = key THEN e ELSE d[n]]
        ELSE Append(d, e)

\* os.chmod(path, mode): the permission bits are replaced, the file-type bits kept
ChmodResult(st_mode, mode) == (st_mode - Mask(st_mode)) + Mask(mode)

----------------------------------------------------------------------------
(* The package manager *)

\* lines of `pacman -Qn NAME...`: "name version" for each target, in target order
QueryNames(names) == [n \in 1..Len(names) |-> <<names[n], InstalledVersion(names[n])>>]

Owners(p) ==
    {n \in 1..Len(Installed) :
        \E m \in 1..Len(archives[Installed[n][1]]) :
            AbsPath(archives[Installed[n][1]][m].name) = p}

\* lines of `pacman -Qo PATH...`, split into words: "PATH is owned by name version"
QueryOwners(paths) ==
    [n \in 1..Len(paths) |->
        LET o == CHOOSE o \in Owners(paths[n]) : \A q \in Owners(paths[n]) : o <= q
        IN  <<paths[n], "is", "owned", "by", Installed[o][1], Installed[o][2]>>]

\* " ".join(line.split()[-2:]), then package_id.split()
LastTwo(line) == SubSeq(line, Len(line) - 1, Len(line))

----------------------------------------------------------------------------
(* Inputs *)

NoFlags == [all |-> FALSE, packages |-> None, filesystem_paths |-> None, clean |-> FALSE]

\* command lines argparse accepts: at most one of -a, -p NAME..., -f PATH..., and -c
CommandLines ==
    {[NoFlags EXCEPT !.clean = c] : c \in BOOLEAN}
    \cup {[NoFlags EXCEPT !.all = TRUE, !.clean = c] : c \in BOOLEAN}
    \cup {[NoFlags EXCEPT !.packages = a, !.clean = c] :
            a \in SeqsUpTo(PackageNames \cup {"nosuch"}, MaxArgs), c \in BOOLEAN}
    \cup {[NoFlags EXCEPT !.filesystem_paths = a, !.clean = c] :
            a \in SeqsUpTo({"/usr/bin/foo", "/etc/bar", "/tmp/x"}, MaxArgs), c \in BOOLEAN}

TotalMembers(a) == Len(a["bar"]) + Len(a["foo"])

ArchiveSets ==
    {a \in [PackageNames -> SeqsUpTo(Members, MaxMembers)] : TotalMembers(a) <= MaxMembers}

DefaultArchives ==
    [n \in PackageNames |->
        IF n = "bar"
        THEN << [name |-> "usr/bin/foo", mode |-> 493], [name |-> "etc/bar", mode |-> 420] >>
        ELSE << [name |-> "boot/amd-ucode.img", mode |-> 420],
                [name |-> "usr/bin/foo", mode |-> 420] >>]

\* the firmware image is always there, with bits the archive does not record
Filesystems ==
    UNION {{f \in [S \cup {"/boot/amd-ucode.img"} -> LiveModes] :
                f["/boot/amd-ucode.img"] = 33261} :
           S \in SUBSET {"/usr/bin/foo", "/etc/bar"}}

DefaultFs ==
    [q \in {"/boot/amd-ucode.img", "/usr/bin/foo", "/etc/bar"} |->
        IF q = "/usr/bin/foo" THEN 33188 ELSE 33261]

FullCache == {RepoFile(Installed[n][1], Installed[n][2]) : n \in 1..Len(Installed)}

AllCandidates ==
    UNION {{CandidatePaths(Installed[n][1], Installed[n][2], arch)[m] : m \in 1..4} :
           n \in 1..Len(Installed)}

\* archives and live modes vary, everything is cached
InitScan ==
    /\ cli_args = NoFlags
    /\ archives \in ArchiveSets
    /\ fs \in Filesystems
    /\ cache = FullCache

\* the command line varies
InitArgs ==
    /\ cli_args \in CommandLines
    /\ archives = DefaultArchives
    /\ fs = DefaultFs
    /\ cache = FullCache

\* the content of the package cache varies
InitCache ==
    /\ cli_args \in {[NoFlags EXCEPT !.clean = c, !.filesystem_paths = a] :
                        c \in BOOLEAN, a \in {None, <<"/usr/bin/foo", "/usr/bin/foo">>}}
    /\ archives = DefaultArchives
    /\ fs = DefaultFs
    /\ cache \in SUBSET AllCandidates

Init ==
    /\ InitScan \/ InitArgs \/ InitCache
    /\ pc = "argcheck"
    /\ package_ids = <<>>
    /\ i = 0
    /\ downloaded = FALSE
    /\ path = None
    /\ members = <<>>
    /\ broken_paths = <<>>
    /\ k = 0
    /\ answer = <<>>
    /\ run = 1
    /\ events = <<>>
    /\ cacheAtLookup = {}

----------------------------------------------------------------------------
(* Decisions of the code *)

\* getattr(cli_args, "packages", None) == []
EmptyPackagesArg(args) == GetAttr(args, "packages", None) = <<>>

\* getattr(cli_args, "filesystem-paths", None) == []
EmptyPathsArg(args) == GetAttr(args, "filesystem-paths", None) = <<>>

\* a fetch whatever the first lookup found
NeedsDownload_Always(found) == TRUE

\* if path is None: ... download
NeedsDownload(found) == found = None

\* the cleanup without the test of `downloaded`
ShouldClean_IgnoresDownloaded(d, clean) == clean

\* if downloaded and clean
ShouldClean(d, clean) == d /\ clean

\* if file.name in PACKAGE_IGNORE
Ignored(name) == name \in PACKAGE_IGNORE

\* the scan without the test for an entry already recorded
AlreadyRecorded_Never(d, q) == FALSE

\* if path in broken_paths
AlreadyRecorded(d, q) == HasKey(d, q)

\* int(lstat(path).st_mode & 0o7777)
OldMode(st_mode) == Mask(st_mode)

\* int(file.mode)
NewMode(file) == file.mode

\* a comparison that sees only missing bits
Differs_OnlyBelow(old_mode, new_mode) == old_mode < new_mode

\* if old_mode != new_mode
Differs(old_mode, new_mode) == old_mode # new_mode

\* the lstat call outside any try block
CatchesFileNotFound_No == FALSE

\* except FileNotFoundError: the scan goes on to the next member
CatchesFileNotFound == TRUE

\* the answer compared without lower()
Declined_CaseSensitive(line) == line \in {"no", "n"}

\* if input().lower() in ["no", "n"]
Declined(line) == Lower(line) \in {"no", "n"}

Log(op, arg) == events' = Append(events, <<op, arg>>)

name_ == package_ids[i][1]
version_ == package_ids[i][2]

----------------------------------------------------------------------------
(* Steps of the program *)

\* module level: the checks on the parsed arguments; parser.error exits with status 2
CheckArgs ==
    /\ pc = "argcheck"
    /\ pc' = IF EmptyPackagesArg(cli_args) \/ EmptyPathsArg(cli_args)
             THEN "usage_error" ELSE "main"
    /\ UNCHANGED <<cli_args, archives, fs, cache, package_ids, i, downloaded, path,
                   members, broken_paths, k, answer, run, events, cacheAtLookup>>

\* __main__: pacman -Syu --noconfirm, check=True
Upgrade ==
    /\ pc = "main"
    /\ Log("Syu", "")
    /\ \/ pc' = "select"
       \/ pc' = "aborted"
    /\ UNCHANGED <<cli_args, archives, fs, cache, package_ids, i, downloaded, path,
                   members, broken_paths, k, answer, run, cacheAtLookup>>

\* __main__: the selection becomes the list of package ids
Select ==
    /\ pc = "select"
    /\ LET selected_packages == GetAttr(cli_args, "packages", <<>>)
           selected_paths == GetAttr(cli_args, "filesystem_paths", <<>>)
           byName == Truthy(selected_packages)
           byPath == ~byName /\ Truthy(selected_paths)
           failed ==
               \/ byName /\ \E n \in 1..Len(selected_packages) :
                                selected_packages[n] \notin PackageNames
               \/ byPath /\ \E n \in 1..Len(selected_paths) : Owners(selected_paths[n]) = {}
           ids ==
               IF byName THEN QueryNames(selected_packages)
               ELSE IF byPath
                    THEN [n \in 1..Len(selected_paths) |->
                            LastTwo(QueryOwners(selected_paths)[n])]
                    ELSE Installed
       IN  /\ Log(IF byPath THEN "Qo" ELSE "Qn", "")
           /\ IF failed
              THEN pc' = "aborted" /\ UNCHANGED <<package_ids, i>>
              ELSE IF ids = <<>>
                   THEN pc' = "aborted" /\ package_ids' = ids /\ UNCHANGED i
                   ELSE pc' = "lookup1" /\ package_ids' = ids /\ i' = 1
    /\ UNCHANGED <<cli_args, archives, fs, cache, downloaded, path,
                   members, broken_paths, k, answer, run, cacheAtLookup>>

\* get_package: downloaded = False; path = _get_package_path(...)
Lookup1 ==
    /\ pc = "lookup1"
    /\ downloaded' = FALSE
    /\ path' = _get_package_path(name_, version_, arch)
    /\ cacheAtLookup' = cache
    /\ Log(IF path' = None THEN "lookup_miss" ELSE "lookup_hit", name_)
    /\ pc' = IF NeedsDownload(path') THEN "fetch" ELSE "lookup2"
    /\ UNCHANGED <<cli_args, archives, fs, cache, package_ids, i,
                   members, broken_paths, k, answer, run>>

\* get_package: pacman -Swq --noconfirm name, check=True; downloaded = True
Fetch ==
    /\ pc = "fetch"
    /\ Log("Swq", name_)
    /\ \/ /\ cache' = cache \cup {RepoFile(name_, version_)}
          /\ downloaded' = TRUE
          /\ pc' = "lookup2"
       \/ /\ cache' = cache \cup {RepoFile(name_, "9.9")}
          /\ downloaded' = TRUE
          /\ pc' = "lookup2"
       \/ /\ pc' = "aborted"
          /\ UNCHANGED <<cache, downloaded>>
    /\ UNCHANGED <<cli_args, archives, fs, package_ids, i, path,
                   members, broken_paths, k, answer, run, cacheAtLookup>>

\* get_package: path = _get_package_path(...); if path is None: raise Exception
Lookup2 ==
    /\ pc = "lookup2"
    /\ path' = _get_package_path(name_, version_, arch)
    /\ Log(IF path' = None THEN "lookup_miss" ELSE "lookup_hit", name_)
    /\ pc' = IF path' = None THEN "aborted" ELSE "open"
    /\ UNCHANGED <<cli_args, archives, fs, cache, package_ids, i, downloaded,
                   members, broken_paths, k, answer, run, cacheAtLookup>>

\* get_package: the archive is opened by its suffix; package.getmembers()
Open ==
    /\ pc = "open"
    /\ Log("open", name_)
    /\ IF EndsWith(path, "xz") \/ EndsWith(path, "zst")
       THEN \/ pc' = "member" /\ members' = archives[name_]
            \/ pc' = "aborted" /\ UNCHANGED members
       ELSE pc' = "aborted" /\ UNCHANGED members
    /\ UNCHANGED <<cli_args, archives, fs, cache, package_ids, i, downloaded, path,
                   broken_paths, k, answer, run, cacheAtLookup>>

\* __main__: the body of `for file in package.getmembers()`, for the next member
ScanMember ==
    /\ pc = "member"
    /\ members # <<>>
    /\ LET file == Head(members)
           q == AbsPath(file.name)
       IN  IF Ignored(file.name) \/ AlreadyRecorded(broken_paths, q)
           THEN /\ members' = Tail(members)
                /\ UNCHANGED <<broken_paths, events, pc>>
           ELSE IF q \notin DOMAIN fs
                THEN \* lstat raises FileNotFoundError
                     IF CatchesFileNotFound
                     THEN /\ Log("not_found", q)
                          /\ members' = Tail(members)
                          /\ UNCHANGED <<broken_paths, pc>>
                     ELSE /\ pc' = "aborted"
                          /\ UNCHANGED <<broken_paths, events, members>>
                ELSE LET old_mode == OldMode(fs[q])
                         new_mode == NewMode(file)
                     IN  /\ broken_paths' =
                                IF Differs(old_mode, new_mode)
                                THEN DictSet(broken_paths, q, old_mode, new_mode)
                                ELSE broken_paths
                         /\ members' = Tail(members)
                         /\ UNCHANGED <<events, pc>>
    /\ UNCHANGED <<cli_args, archives, fs, cache, package_ids, i, downloaded, path,
                   k, answer, run, cacheAtLookup>>

\* get_package after the yield (the archive was read to its end), then the next package
\* or, after the last one, the end of the scan
Close ==
    /\ pc = "member"
    /\ members = <<>>
    /\ IF ShouldClean(downloaded, cli_args.clean)
       THEN cache' = cache \ {path} /\ Log("unlink", name_)
       ELSE UNCHANGED <<cache, events>>
    /\ i' = i + 1
    /\ pc' = IF i < Len(package_ids) THEN "lookup1"
             ELSE IF broken_paths = <<>> THEN "done" ELSE "prompt"
    /\ UNCHANGED <<cli_args, archives, fs, package_ids, downloaded, path,
                   members, broken_paths, k, answer, run, cacheAtLookup>>

\* __main__: "Apply? [Y/n]" and input()
Prompt ==
    /\ pc = "prompt"
    /\ \E line \in Answers :
        /\ answer' = <<line>>
        /\ Log("input", line)
        /\ IF Declined(line)
           THEN pc' = "done" /\ UNCHANGED k
           ELSE pc' = "apply" /\ k' = 1
    /\ UNCHANGED <<cli_args, archives, fs, cache, package_ids, i, downloaded, path,
                   members, broken_paths, run, cacheAtLookup>>

\* __main__: chmod(path, new_mode) for the next entry; an OSError it raises is not caught
Chmod ==
    /\ pc = "apply"
    /\ LET e == broken_paths[k]
       IN  \/ /\ e.path \in DOMAIN fs
              /\ fs' = [fs EXCEPT ![e.path] = ChmodResult(fs[e.path], e.new_mode)]
              /\ Log("chmod", e.path)
              /\ k' = k + 1
              /\ pc' = IF k < Len(broken_paths) THEN "apply" ELSE "done"
           \/ /\ Log("chmod_failed", e.path)
              /\ pc' = "aborted"
              /\ UNCHANGED <<fs, k>>
    /\ UNCHANGED <<cli_args, archives, cache, package_ids, i, downloaded, path,
                   members, broken_paths, answer, run, cacheAtLookup>>

\* every discrepancy of this invocation was written
Applied == pc = "done" /\ broken_paths # <<>> /\ k = Len(broken_paths) + 1

\* the tool is invoked again with the same command line, after a run that applied its fixes
Rerun ==
    /\ Applied
    /\ run < MaxRuns
    /\ run' = run + 1
    /\ pc' = "argcheck"
    /\ package_ids' = <<>>
    /\ i' = 0
    /\ downloaded' = FALSE
    /\ path' = None
    /\ members' = <<>>
    /\ broken_paths' = <<>>
    /\ k' = 0
    /\ answer' = <<>>
    /\ events' = <<>>
    /\ cacheAtLookup' = {}
    /\ UNCHANGED <<cli_args, archives, fs, cache>>

Next ==
    \/ CheckArgs
    \/ Upgrade
    \/ Select
    \/ Lookup1
    \/ Fetch
    \/ Lookup2
    \/ Open
    \/ ScanMember
    \/ Close
    \/ Prompt
    \/ Chmod
    \/ Rerun

Spec == Init /\ [][Next]_vars

----------------------------------------------------------------------------
(* Vocabulary of the properties *)

\* the scan loop has ended and nothing was written yet: fs is what the scan saw
ScanJustDone == pc = "prompt" \/ (pc = "done" /\ answer = <<>>)

RECURSIVE MembersUpTo(_)
\* the members of the selected packages' archives, in the order the scan reads them
MembersUpTo(n) ==
    IF n = 0 THEN <<>> ELSE MembersUpTo(n - 1) \o archives[package_ids[n][1]]

ProcessingOrder == MembersUpTo(Len(package_ids))

\* the recorded modes package number n of the selection holds for path q
ModesOf(n, q) ==
    LET a == archives[package_ids[n][1]]
    IN  {a[m].mode : m \in {m \in 1..Len(a) :
                              a[m].name \notin PACKAGE_IGNORE /\ AbsPath(a[m].name) = q}}

EntriesFor(q) == {n \in 1..Len(broken_paths) : broken_paths[n].path = q}

Ops(S) == {n \in 1..Len(events) : events[n][1] \in S}

Min(S) == CHOOSE n \in S : \A m \in S : n <= m

----------------------------------------------------------------------------
(* C1: round trip *)

\* C1: after a run that wrote every discrepancy it recorded, a scan of the same
\* selection records no discrepancy at all.
C1_RoundTripEmpty ==
    (run >= 2 /\ pc \in {"prompt", "apply", "done"}) => broken_paths = <<>>

----------------------------------------------------------------------------
(* C2: which package's mode is recorded for a path two packages hold *)

\* C2 as stated: when two distinct selected packages hold the path with different
\* modes and a discrepancy is recorded for it, the recorded expected mode is that of
\* the package that comes first in the selection, whatever the live mode is.
C2_FirstPackageWins ==
    ScanJustDone =>
        \A e \in 1..Len(broken_paths) :
            LET q == broken_paths[e].path
                holders == {n \in 1..Len(package_ids) : ModesOf(n, q) # {}}
                first == Min(holders)
            IN  (\E b \in holders :
                    /\ package_ids[b] # package_ids[first]
                    /\ Cardinality(ModesOf(first, q)) = 1
                    /\ Cardinality(ModesOf(b, q)) = 1
                    /\ ModesOf(b, q) # ModesOf(first, q))
                => broken_paths[e].new_mode \in ModesOf(first, q)

\* the members, in the order the scan reads them, that the code finds to differ from
\* the live mode of path q
DifferingMembers(q) ==
    {n \in 1..Len(ProcessingOrder) :
        /\ ProcessingOrder[n].name \notin PACKAGE_IGNORE
        /\ AbsPath(ProcessingOrder[n].name) = q
        /\ ProcessingOrder[n].mode # fs[q] % 4096}

\* C2 amended: the recorded expected mode of a path is the mode of the first member,
\* in selection order and then archive order, whose recorded mode differs from the
\* live mode masked to 0o7777; the recorded current mode is that masked live mode.
C2_FirstDifferingWins ==
    ScanJustDone =>
        \A e \in 1..Len(broken_paths) :
            LET q == broken_paths[e].path
            IN  /\ q \in DOMAIN fs
                /\ DifferingMembers(q) # {}
                /\ broken_paths[e].new_mode = ProcessingOrder[Min(DifferingMembers(q))].mode
                /\ broken_paths[e].old_mode = fs[q] % 4096

\* two distinct packages hold a path with different modes, the live mode is the first
\* package's, and the later package's mode is what the scan recorded
C2_Witness ==
    /\ pc = "prompt"
    /\ Len(package_ids) = 2
    /\ package_ids[1] # package_ids[2]
    /\ \E e \in 1..Len(broken_paths) :
        LET q == broken_paths[e].path
        IN  /\ ModesOf(1, q) = {broken_paths[e].old_mode}
            /\ ModesOf(2, q) = {broken_paths[e].new_mode}

----------------------------------------------------------------------------
(* C3: a failed permission write *)

Attempts == Ops({"chmod", "chmod_failed"})

\* C3: once the apply phase has begun and the run has ended, the write was attempted
\* for every path of the discrepancy map, a failed write included.
C3_ApplyAttemptsEveryPath ==
    (pc \in {"done", "aborted"} /\ Attempts # {}) =>
        Cardinality(Attempts) = Len(broken_paths)

----------------------------------------------------------------------------
(* C4: the confirmation gate *)

\* C4 as stated: a permission write happens only after an explicit affirmative answer.
C4_ExplicitAffirmative ==
    Attempts # {} => (answer # <<>> /\ answer[1] \in {"y", "Y"})

\* C4 amended: a permission write happens only after the prompt was answered with a
\* line other than "n" or "no" in any letter case (the empty line and unrecognised text
\* count as consent); after "n" or "no" nothing is written and the run ends normally.
C4_WriteOnlyIfNotDeclined ==
    /\ Attempts # {} => (answer # <<>> /\ answer[1] \notin {"n", "N", "no", "No"})
    /\ (answer # <<>> /\ answer[1] \in {"n", "N", "no", "No"}) =>
            (pc = "done" /\ Attempts = {} /\ k = 0)

\* the empty line was read and a mode was written
C4_Witness ==
    /\ answer = <<"">>
    /\ Ops({"chmod"}) # {}
    /\ pc = "done"

----------------------------------------------------------------------------
(* C5: a scoped mode with no argument *)

\* C5: with -p or -f given and no argument after it, the run fails at the argument
\* check: no command of the package manager is run and nothing is scanned.
C5_EmptySelectionFails ==
    (cli_args.packages = <<>> \/ cli_args.filesystem_paths = <<>>) =>
        (pc \in {"argcheck", "usage_error"} /\ events = <<>> /\ broken_paths = <<>>)

----------------------------------------------------------------------------
(* C9: the mask *)

\* C9: both modes of every entry lie in 0..0o7777, and no entry is recorded for a
\* member whose mode agrees with the live mode on the low 12 bits.
C9_BothSidesMasked ==
    \A e \in 1..Len(broken_paths) :
        /\ broken_paths[e].old_mode \in 0..4095
        /\ broken_paths[e].new_mode \in 0..4095
        /\ broken_paths[e].new_mode % 4096 # broken_paths[e].old_mode

----------------------------------------------------------------------------
(* C6: a member whose file is gone *)

\* the next member is neither ignored nor already recorded, and its path does not exist
AtMissingMember ==
    /\ pc = "member"
    /\ members # <<>>
    /\ Head(members).name \notin PACKAGE_IGNORE
    /\ EntriesFor(AbsPath(Head(members).name)) = {}
    /\ AbsPath(Head(members).name) \notin DOMAIN fs

\* every member the scan read whose path exists with a live mode other than the
\* recorded one has an entry
NothingMissed ==
    \A n \in 1..Len(ProcessingOrder) :
        LET m == ProcessingOrder[n]
            q == AbsPath(m.name)
        IN  (m.name \notin PACKAGE_IGNORE /\ q \in DOMAIN fs /\ fs[q] % 4096 # m.mode)
                => Cardinality(EntriesFor(q)) = 1

----------------------------------------------------------------------------
(* C7: the scan finds every discrepancy *)

\* C7: at the end of a scan every non-ignored member whose path exists with live
\* permission bits other than the recorded mode has exactly one entry, and in every
\* entry the two modes differ.
C7_ScanComplete ==
    /\ ScanJustDone => NothingMissed
    /\ \A e \in 1..Len(broken_paths) :
            broken_paths[e].old_mode # broken_paths[e].new_mode

\* both files differ from their archives, an ignored member is in one archive, and the
\* scan ended with two entries
C7_Witness ==
    /\ pc = "prompt"
    /\ Len(broken_paths) = 2
    /\ \E n \in 1..Len(ProcessingOrder) : ProcessingOrder[n].name \in PACKAGE_IGNORE

----------------------------------------------------------------------------
(* C8: one fetch, one retry *)

IsLookup(e) == e[1] \in {"lookup_hit", "lookup_miss"}

\* C8: a fetch comes only right after the package's first lookup missed, the lookup is
\* then made once more, and after that either the archive is opened or, the second
\* lookup having missed too, the run is over: nothing follows it, so the archive is not
\* opened, no later package is looked up and no mode is written.
C8_SingleFetchRetry ==
    /\ \A n \in Ops({"Swq"}) :
        /\ n > 1
        /\ events[n - 1] = <<"lookup_miss", events[n][2]>>
        /\ n > 2 => events[n - 2][1] # "Swq"
        /\ n < Len(events) => (IsLookup(events[n + 1]) /\ events[n + 1][2] = events[n][2])
        /\ n + 1 < Len(events) =>
                (events[n + 1][1] = "lookup_hit" /\ events[n + 2] = <<"open", events[n][2]>>)
    /\ \A n \in Ops({"lookup_miss"}) :
        IF n > 1 /\ events[n - 1][1] = "Swq"
        THEN n = Len(events) /\ pc = "aborted"
        ELSE IF n < Len(events)
             THEN events[n + 1] = <<"Swq", events[n][2]>>
             ELSE pc = "fetch"
    /\ pc = "fetch" =>
        \A m \in 1..4 : CandidatePaths(name_, version_, arch)[m] \notin cache

\* the archive of the second package was missing, the fetch did not bring it, and the
\* run ended there with the first package's discrepancies unwritten
C8_Witness ==
    /\ pc = "aborted"
    /\ Len(events) >= 2
    /\ events[Len(events)][1] = "lookup_miss"
    /\ events[Len(events) - 1][1] = "Swq"
    /\ i = 2
    /\ broken_paths # <<>>

----------------------------------------------------------------------------
(* C10: what the run deletes from the cache *)

LastOpen == CHOOSE n \in Ops({"open"}) : \A m \in Ops({"open"}) : m <= n

\* C10: a step removes a file from the cache only with the clean flag set, when the
\* archive of the current package was read to its end, and then it removes one file,
\* of that package, which was not in the cache at the package's first lookup and which
\* a fetch for that package brought.
C10_CleanupFrame ==
    [][(cache \ cache' # {}) =>
        /\ cli_args.clean
        /\ Cardinality(cache \ cache') = 1
        /\ (cache \ cache') \cap cacheAtLookup = {}
        /\ \A f \in cache \ cache' : f[1] = name_
        /\ pc = "member" /\ members = <<>> /\ pc' # "aborted"
        /\ Ops({"open"}) # {}
        /\ LastOpen >= 4
        /\ events[LastOpen] = <<"open", name_>>
        /\ events[LastOpen - 1] = <<"lookup_hit", name_>>
        /\ events[LastOpen - 2] = <<"Swq", name_>>
        /\ events[LastOpen - 3] = <<"lookup_miss", name_>>]_vars

\* a fetched archive was deleted while an archive that was cached before is still there
C10_Witness ==
    /\ Ops({"unlink"}) # {}
    /\ cache \cap AllCandidates # {}

====
